---- MODULE Spec2Model ----
(***************************************************************************)
(* Merge bot of oca-github-bot (oca_github_bot/tasks/merge_bot.py).        *)
(*                                                                         *)
(* Two tasks, merge_bot_start and merge_bot_status, run as independent     *)
(* workers against one remote repository and one pull request.  The only   *)
(* state shared by workers is the remote: the target branch, the merge bot *)
(* branches, and the pull request (comments, label, open/closed).  Every   *)
(* worker works in its own temporary clone, a snapshot of the remote.      *)
(*                                                                         *)
(* A branch is the sequence of its commits, oldest first, so the sha of a  *)
(* head commit is the sequence itself and "a is an ancestor of b" is "a is *)
(* a prefix of b".                                                         *)
(***************************************************************************)
EXTENDS Naturals, Sequences, FiniteSets, TLC

\* ------------------------------------------------------------------------
\* Bounds of the model
\* ------------------------------------------------------------------------

\* number of concurrent workers of the task queue
NumWorkers == 2

\* number of task deliveries (merge commands, webhooks, redeliveries)
MaxDispatch == 3

\* number of commits other people push on the target branch
MaxTargetMoves == 1

\* longest list of status entries / of check suites given to the aggregator
MaxEntries == 2

Procs == 1 .. NumWorkers

\* ------------------------------------------------------------------------
\* Values
\* ------------------------------------------------------------------------

\* success = None in _get_commit_success: don't know / in progress
None == "None"

\* a local variable that is not assigned yet
Unset == "unset"

LABEL_MERGED == "merged"

\* the pull request and the branch it targets (gh_pr.base.ref)
PR == 42

TargetBranch == "main"

Users == {"alice", "bob"}

\* users the hosting API reports as having push permission
Pushers == {"alice"}

Bumps == {"", "minor"}

\* config.GITHUB_STATUS_IGNORED, config.GITHUB_CHECK_SUITES_IGNORED
GITHUB_STATUS_IGNORED == {<<"ci", "runbot">>}

GITHUB_CHECK_SUITES_IGNORED == {"Codecov"}

\* a status context is the sequence of its "/"-separated parts
TravisPrefix == <<"continuous-integration", "travis-ci">>

StatusContexts == {<<"ci", "runbot">>, <<"continuous-integration", "travis-ci", "pr">>, <<"ci", "other">>}

StatusStates == {"success", "pending", "failure"}

SuiteApps == {"Codecov", "Travis CI", "GitHub Actions"}

\* conclusion "" is a check suite that has not completed
SuiteConclusions == {"", "success", "failure"}

StatusEntries == [context : StatusContexts, state : StatusStates]

SuiteEntries == [app : SuiteApps, conclusion : SuiteConclusions]

SeqsUpTo(S, n) == UNION {[1 .. k -> S] : k \in 0 .. n}

\* str.startswith
startswith(s, prefix) == Len(s) >= Len(prefix) /\ SubSeq(s, 1, Len(prefix)) = prefix

\* ------------------------------------------------------------------------
\* Commits and branches
\* ------------------------------------------------------------------------

BaseCommit == [k |-> "base", n |-> 0]

PRCommit == [k |-> "pr", n |-> PR]

ExtCommit(i) == [k |-> "ext", n |-> i]

MergeCommit(stamp) == [k |-> "merge", n |-> stamp]

\* the committer date of a merge commit: two merges of the same branches are
\* the same commit when made in the same second, different commits otherwise
Stamps == {1, 2}

\* a branch that does not exist on the remote
Absent == <<>>

IsAncestor(a, b) == Len(a) <= Len(b) /\ SubSeq(b, 1, Len(a)) = a

Count(h, kind) == Cardinality({i \in 1 .. Len(h) : h[i].k = kind})

\* ------------------------------------------------------------------------
\* version_branch: the branch name of a merge intent
\* ------------------------------------------------------------------------

make_merge_bot_branch(pr, target_branch, username, bumpversion) == <<"ocabot-merge", pr, target_branch, username, bumpversion>>

parse_merge_bot_branch(merge_bot_branch) == [pr |-> merge_bot_branch[2], target_branch |-> merge_bot_branch[3], username |-> merge_bot_branch[4], bumpversion |-> merge_bot_branch[5]]

BotBranches == {make_merge_bot_branch(PR, TargetBranch, u, b) : u \in Users, b \in Bumps}

\* ------------------------------------------------------------------------
\* Remote git commands, as functions of the remote they act on
\* ------------------------------------------------------------------------

\* a bug: the head of the pull request is pushed as fetched, not rebased
git_rebase_skipped(local_target) == <<BaseCommit, PRCommit>>

\* git fetch origin pull/{pr}/head:{merge_bot_branch} ; git rebase --autosquash
\* {target_branch}: the commits of the pull request replayed on the target
\* branch; commits the target branch already holds are dropped
git_rebase(local_target) == IF Count(local_target, "pr") > 0 THEN local_target ELSE Append(local_target, PRCommit)

\* git merge --no-ff --m msg {merge_bot_branch}, on the target branch: "Already
\* up to date" creates no commit
git_merge_no_ff(local_target, local_branch, stamp) == IF local_branch = local_target THEN local_target ELSE Append(local_branch, MergeCommit(stamp))

\* a bug: git push --force
git_push_forced(remote_head, local_head) == TRUE

\* git push origin {branch}: fast-forward only; a rejected push fails the command
git_push_accepted(remote_head, local_head) == remote_head = Absent \/ IsAncestor(remote_head, local_head)

\* git push origin :{branch}: the output of the failed command, "" on success
git_push_delete_output(remote_head, fault) == IF fault THEN "fatal: unable to access" ELSE IF remote_head = Absent THEN "error: unable to delete" ELSE ""

\* "unable to delete" in e.output
unable_to_delete(output) == output = "error: unable to delete"

\* _git_delete_branch raises iff the command failed for another reason than
\* the remote branch not existing
_git_delete_branch_raises(output) == output # "" /\ ~unable_to_delete(output)

\* _git_call(["git", "push", "origin", f":{merge_bot_branch}"]) raises on any failure
_git_call_delete_raises(output) == output # ""

\* ------------------------------------------------------------------------
\* _get_commit_success
\* ------------------------------------------------------------------------

True == "True"

False == "False"

\* a bug: the status context looked up in the list of ignored check suites
status_ignored_wrong_list(status) == status.context \in GITHUB_CHECK_SUITES_IGNORED

status_ignored(status) == status.context \in GITHUB_STATUS_IGNORED

\* a bug: every check suite is skipped
check_suite_ignored_always(check_suite) == TRUE

check_suite_ignored(check_suite) == check_suite.app \in GITHUB_CHECK_SUITES_IGNORED

is_old_travis(status) == startswith(status.context, TravisPrefix)

\* a bug: an incomplete Travis check suite skipped whatever the old status says
travis_hack_unconditional(check_suite, old_travis) == check_suite.app = "Travis CI"

travis_hack(check_suite, old_travis) == check_suite.app = "Travis CI" /\ old_travis

\* the loop over gh_status.statuses: ret is TRUE when the loop returned
RECURSIVE statuses_loop(_, _, _, _)
statuses_loop(statuses, i, success, old_travis) ==
    IF i > Len(statuses)
    THEN [ret |-> FALSE, success |-> success, old_travis |-> old_travis]
    ELSE LET status == statuses[i] IN
         IF status_ignored(status)
         THEN statuses_loop(statuses, i + 1, success, old_travis)
         ELSE IF status.state = "success"
         THEN statuses_loop(statuses, i + 1, True, old_travis \/ is_old_travis(status))
         ELSE IF status.state = "pending"
         THEN [ret |-> TRUE, success |-> None, old_travis |-> old_travis]
         ELSE [ret |-> TRUE, success |-> False, old_travis |-> old_travis]

\* the loop over gh_check_suites, and the final return success
RECURSIVE check_suites_loop(_, _, _, _)
check_suites_loop(gh_check_suites, i, success, old_travis) ==
    IF i > Len(gh_check_suites)
    THEN success
    ELSE LET check_suite == gh_check_suites[i] IN
         IF check_suite_ignored(check_suite)
         THEN check_suites_loop(gh_check_suites, i + 1, success, old_travis)
         ELSE IF check_suite.conclusion = "success"
         THEN check_suites_loop(gh_check_suites, i + 1, True, old_travis)
         ELSE IF check_suite.conclusion = ""
         THEN IF travis_hack(check_suite, old_travis)
              THEN check_suites_loop(gh_check_suites, i + 1, success, old_travis)
              ELSE None
         ELSE False

\* a bug: the check suites are not looked at
_get_commit_success_statuses_only(gh_commit) == statuses_loop(gh_commit.statuses, 1, None, FALSE).success

\* a bug: a status or check suite that is not a success does not stop the
\* loops, the last entry decides
_get_commit_success_last_wins(gh_commit) ==
    LET st == {i \in 1 .. Len(gh_commit.statuses) : ~status_ignored(gh_commit.statuses[i])}
        cs == {j \in 1 .. Len(gh_commit.check_suites) : ~check_suite_ignored(gh_commit.check_suites[j])}
        Max(S) == CHOOSE x \in S : \A y \in S : y <= x
    IN  IF cs # {}
        THEN LET e == gh_commit.check_suites[Max(cs)] IN
             IF e.conclusion = "success" THEN True ELSE IF e.conclusion = "" THEN None ELSE False
        ELSE IF st # {}
        THEN LET e == gh_commit.statuses[Max(st)] IN
             IF e.state = "success" THEN True ELSE IF e.state = "pending" THEN None ELSE False
        ELSE None

_get_commit_success(gh_commit) ==
    LET s == statuses_loop(gh_commit.statuses, 1, None, FALSE) IN
    IF s.ret THEN s.success
    ELSE check_suites_loop(gh_commit.check_suites, 1, s.success, s.old_travis)

\* ------------------------------------------------------------------------
\* State
\* ------------------------------------------------------------------------

VARIABLES
    cmd,          \* the merge command of the user: username, bumpversion, dry_run
    target,       \* remote: the target branch
    bot,          \* remote: the merge bot branches, Absent when not on the remote
    pushed,       \* <<branch, sha>> of every push of a merge bot branch (CI runs on them)
    pr_state,     \* "open" or "closed"
    pr_labels,    \* labels of the pull request
    dispatched,   \* number of tasks delivered so far
    task,         \* per worker: "none", "start" or "status"
    pc,           \* per worker: position in the task
    nested,       \* per worker: merge_bot_start runs inside _merge_bot_merge_pr
    s_args,       \* per worker: arguments of merge_bot_start
    t_args,       \* per worker: arguments of merge_bot_status
    clone,        \* per worker: the temporary clone (target branch, merge bot branch)
    gh_commit,    \* per worker: the statuses and check suites read for the commit
    success,      \* per worker: result of _get_commit_success
    log,          \* per worker: what the running invocation did so far, in order
    left_by_first \* history: the remote and the pull request as a task left them, once it is delivered again

vars == <<cmd, target, bot, pushed, pr_state, pr_labels, dispatched, task, pc, nested, s_args, t_args, clone, gh_commit, success, log, left_by_first>>

\* what no task changes: the merge command, and the history of redeliveries
given == <<cmd, left_by_first>>

remote == <<target, bot, pushed>>

pull_request == <<pr_state, pr_labels>>

frames == <<task, nested, s_args, t_args>>

locals == <<clone, gh_commit, success>>

NoStart == [pr |-> 0, username |-> "", bumpversion |-> "", dry_run |-> FALSE, intro_message |-> ""]

NoStatus == [merge_bot_branch |-> <<>>, sha |-> <<>>]

NoClone == [target |-> <<>>, branch |-> <<>>]

NoEntries == [statuses |-> <<>>, check_suites |-> <<>>]

\* no task was delivered a second time
NotRedelivered == <<>>

\* what the hosting API reports for a commit in the workflow: only an ignored
\* failure, a success, a failure
CIReports == {
    [statuses |-> <<[context |-> <<"ci", "runbot">>, state |-> "failure"]>>, check_suites |-> <<>>],
    [statuses |-> <<[context |-> <<"ci", "other">>, state |-> "success"]>>, check_suites |-> <<>>],
    [statuses |-> <<>>, check_suites |-> <<[app |-> "GitHub Actions", conclusion |-> "failure"]>>] }

\* the merge commands users give on the pull request
Commands == {
    [username |-> "alice", bumpversion |-> "minor", dry_run |-> TRUE],
    [username |-> "bob", bumpversion |-> "", dry_run |-> FALSE] }

Init ==
    /\ cmd \in Commands
    /\ target = <<BaseCommit>>
    /\ bot = [b \in BotBranches |-> Absent]
    /\ pushed = {}
    /\ pr_state = "open"
    /\ pr_labels = {}
    /\ dispatched = 0
    /\ task = [p \in Procs |-> "none"]
    /\ pc = [p \in Procs |-> "idle"]
    /\ nested = [p \in Procs |-> FALSE]
    /\ s_args = [p \in Procs |-> NoStart]
    /\ t_args = [p \in Procs |-> NoStatus]
    /\ clone = [p \in Procs |-> NoClone]
    /\ gh_commit = [p \in Procs |-> NoEntries]
    /\ success = [p \in Procs |-> Unset]
    /\ log = [p \in Procs |-> <<>>]
    /\ left_by_first = NotRedelivered

\* the invocation of worker self does evs, in order
Emit(self, evs) == log' = [log EXCEPT ![self] = @ \o evs]

Goto(self, label) == pc' = [pc EXCEPT ![self] = label]

\* the invocation returns ("done") or raises ("raised"): temporary_clone
\* removes the clone on the way out
Exit(self, label) == Goto(self, label) /\ clone' = [clone EXCEPT ![self] = NoClone]

\* ------------------------------------------------------------------------
\* Tasks delivered by the queue
\* ------------------------------------------------------------------------

\* a worker is free when it runs no task or its task ended
free(self) == pc[self] \in {"idle", "done", "raised"}

\* workers are interchangeable: the queue hands a task to the first free one
takes_task(self) == free(self) /\ \A q \in Procs : q < self => ~free(q)

\* a merge command of the user (or its redelivery) starts merge_bot_start
DispatchStart(self) ==
    /\ takes_task(self)
    /\ dispatched < MaxDispatch
    /\ dispatched' = dispatched + 1
    /\ task' = [task EXCEPT ![self] = "start"]
    /\ s_args' = [s_args EXCEPT ![self] = [pr |-> PR, username |-> cmd.username, bumpversion |-> cmd.bumpversion, dry_run |-> cmd.dry_run, intro_message |-> ""]]
    /\ t_args' = [t_args EXCEPT ![self] = NoStatus]
    /\ nested' = [nested EXCEPT ![self] = FALSE]
    /\ clone' = [clone EXCEPT ![self] = NoClone]
    /\ gh_commit' = [gh_commit EXCEPT ![self] = NoEntries]
    /\ success' = [success EXCEPT ![self] = Unset]
    /\ log' = [log EXCEPT ![self] = <<>>]
    /\ Goto(self, "start_clone")
    /\ UNCHANGED <<given, remote, pull_request>>

\* a status or check-suite webhook on a commit of a merge bot branch (or its
\* redelivery) starts merge_bot_status
DispatchStatus(self) ==
    /\ takes_task(self)
    /\ dispatched < MaxDispatch
    /\ \E ev \in pushed :
        t_args' = [t_args EXCEPT ![self] = [merge_bot_branch |-> ev[1], sha |-> ev[2]]]
    /\ dispatched' = dispatched + 1
    /\ task' = [task EXCEPT ![self] = "status"]
    /\ s_args' = [s_args EXCEPT ![self] = NoStart]
    /\ nested' = [nested EXCEPT ![self] = FALSE]
    /\ clone' = [clone EXCEPT ![self] = NoClone]
    /\ gh_commit' = [gh_commit EXCEPT ![self] = NoEntries]
    /\ success' = [success EXCEPT ![self] = Unset]
    /\ log' = [log EXCEPT ![self] = <<>>]
    /\ Goto(self, "status_clone")
    /\ UNCHANGED <<given, remote, pull_request>>

\* ------------------------------------------------------------------------
\* The environment
\* ------------------------------------------------------------------------

\* somebody else pushes a commit on the target branch
TargetAdvance ==
    /\ Count(target, "ext") < MaxTargetMoves
    /\ target' = Append(target, ExtCommit(Count(target, "ext") + 1))
    /\ UNCHANGED <<given, bot, pushed, pull_request, dispatched, frames, pc, locals, log>>

\* ------------------------------------------------------------------------
\* merge_bot_start
\* ------------------------------------------------------------------------

\* github.git_user_can_push: the users with push permission on the repository
git_user_can_push(username) == username \in Pushers

\* a bug: nobody is ever turned away
permission_denied_never(username) == FALSE

\* line 137: if not github.git_user_can_push(gh.repository(org, repo), username)
permission_denied(username) == ~git_user_can_push(username)

\* the name of the merge bot branch merge_bot_start works on
start_branch(a) == make_merge_bot_branch(a.pr, TargetBranch, a.username, a.bumpversion)

\* the failure of a delete command, by its output
delete_failure(output) == IF unable_to_delete(output) THEN "fail_unable_to_delete" ELSE "fail_delete"

\* a bug: merge_bot_status does not report the failure of a restarted
\* merge_bot_start
start_failed_once_reported(self, failure) == <<failure, "comment_could_not_start">>

\* a command failed in merge_bot_start: the except clauses of merge_bot_start,
\* and of merge_bot_status around a nested call, each post their comment and
\* raise again
start_failed(self, failure) == <<failure, "comment_could_not_start">> \o (IF nested[self] THEN <<"comment_not_finalized">> ELSE <<>>)

\* git rebase stops on a conflict only when the target branch holds commits
\* of other people that the pull request does not build on
rebase_outcomes(local_target) == IF Count(local_target, "ext") > 0 /\ Count(local_target, "pr") = 0 THEN {"ok", "conflict"} ELSE {"ok"}

\* lines 136-159: permission check, temporary clone of the target branch,
\* fetch of the pull request, rebase
StartClone(self) ==
    /\ pc[self] = "start_clone"
    /\ IF permission_denied(s_args[self].username)
       THEN Emit(self, <<"comment_no_permission">>) /\ Exit(self, "done")
       ELSE \E outcome \in rebase_outcomes(target) :
            IF outcome = "conflict"
            THEN Emit(self, start_failed(self, "fail_rebase")) /\ Exit(self, "raised")
            ELSE /\ clone' = [clone EXCEPT ![self] = [target |-> target, branch |-> git_rebase(target)]]
                 /\ Emit(self, <<>>)
                 /\ Goto(self, "start_delete")
    /\ UNCHANGED <<given, remote, pull_request, dispatched, frames, gh_commit, success>>

\* line 161: _git_delete_branch("origin", merge_bot_branch)
StartDelete(self) ==
    /\ pc[self] = "start_delete"
    /\ \E fault \in BOOLEAN :
        LET b == start_branch(s_args[self])
            output == git_push_delete_output(bot[b], fault)
        IN  IF _git_delete_branch_raises(output)
            THEN Emit(self, start_failed(self, delete_failure(output))) /\ Exit(self, "raised") /\ UNCHANGED bot
            ELSE /\ bot' = [bot EXCEPT ![b] = Absent]
                 /\ Emit(self, IF output = "" THEN <<"delete_bot">> ELSE <<>>)
                 /\ Goto(self, "start_push")
                 /\ UNCHANGED clone
    /\ UNCHANGED <<given, target, pushed, pull_request, dispatched, frames, gh_commit, success>>

\* lines 162-171: git push origin merge_bot_branch, the progress comment, and
\* merge_bot_start returns
StartPush(self) ==
    /\ pc[self] = "start_push"
    /\ LET b == start_branch(s_args[self]) IN
       IF git_push_accepted(bot[b], clone[self].branch)
       THEN /\ bot' = [bot EXCEPT ![b] = clone[self].branch]
            /\ pushed' = pushed \cup {<<b, clone[self].branch>>}
            /\ Emit(self, <<"push_bot", "comment_rebased">>)
            /\ Exit(self, "done")
       ELSE Emit(self, start_failed(self, "fail_push")) /\ Exit(self, "raised") /\ UNCHANGED <<bot, pushed>>
    /\ UNCHANGED <<given, target, pull_request, dispatched, frames, gh_commit, success>>

\* ------------------------------------------------------------------------
\* merge_bot_status and _merge_bot_merge_pr
\* ------------------------------------------------------------------------

\* a bug: _merge_bot_merge_pr always runs with dry_run=True
merge_pr_dry_run_always == TRUE

\* merge_bot_status calls _merge_bot_merge_pr(org, repo, merge_bot_branch):
\* dry_run keeps its default
merge_pr_dry_run == FALSE

\* a bug: no staleness guard
is_stale_never(head_sha, sha) == FALSE

\* a bug: the staleness guard the wrong way round
is_stale_inverted(head_sha, sha) == head_sha = sha

\* the staleness guard: head_sha != sha
is_stale(head_sha, sha) == head_sha # sha

\* r != 0 for git merge-base --is-ancestor target_branch merge_bot_branch
not_on_top(local_target, local_branch) == ~IsAncestor(local_target, local_branch)

\* a bug: the restart forgets the bump policy of the branch
restart_args_without_bump(merge_bot_branch, dry) ==
    LET i == parse_merge_bot_branch(merge_bot_branch) IN
    [pr |-> i.pr, username |-> i.username, bumpversion |-> "", dry_run |-> dry, intro_message |-> "something changed"]

\* the arguments of the call of merge_bot_start in _merge_bot_merge_pr
restart_args(merge_bot_branch, dry) ==
    LET i == parse_merge_bot_branch(merge_bot_branch) IN
    [pr |-> i.pr, username |-> i.username, bumpversion |-> i.bumpversion, dry_run |-> dry, intro_message |-> "something changed"]

\* lines 232-237: temporary clone of the merge bot branch, which fails when
\* the branch is not on the remote, and the staleness guard
StatusClone(self) ==
    /\ pc[self] = "status_clone"
    /\ LET b == t_args[self].merge_bot_branch IN
       IF bot[b] = Absent
       THEN Emit(self, <<"fail_clone">>) /\ Exit(self, "raised")
       ELSE IF is_stale(bot[b], t_args[self].sha)
       THEN Emit(self, <<>>) /\ Exit(self, "done")
       ELSE /\ clone' = [clone EXCEPT ![self] = [target |-> target, branch |-> bot[b]]]
            /\ Emit(self, <<>>)
            /\ Goto(self, "status_check")
    /\ UNCHANGED <<given, remote, pull_request, dispatched, frames, gh_commit, success>>

\* lines 238-247 and 266-276, and lines 48-72 of _merge_bot_merge_pr: the
\* verdict on the commit; in progress returns, a failure posts the comment,
\* a success enters _merge_bot_merge_pr, which checks that the merge bot branch
\* is still on top of the target branch and starts merge_bot_start again when
\* it is not
StatusCheckOn(self, commit) ==
    /\ pc[self] = "status_check"
    /\ LET verdict == _get_commit_success(commit) IN
       /\ gh_commit' = [gh_commit EXCEPT ![self] = commit]
       /\ success' = [success EXCEPT ![self] = verdict]
       /\ IF verdict = None
          THEN Emit(self, <<>>) /\ Exit(self, "done") /\ UNCHANGED <<nested, s_args>>
          ELSE IF verdict = False
          THEN Emit(self, <<"comment_aborted">>) /\ Goto(self, "status_fail_delete") /\ UNCHANGED <<nested, s_args, clone>>
          ELSE IF not_on_top(clone[self].target, clone[self].branch)
          THEN /\ Emit(self, <<"restart">>)
               /\ nested' = [nested EXCEPT ![self] = TRUE]
               /\ s_args' = [s_args EXCEPT ![self] = restart_args(t_args[self].merge_bot_branch, merge_pr_dry_run)]
               /\ Goto(self, "start_clone")
               /\ UNCHANGED clone
          ELSE Emit(self, <<>>) /\ Goto(self, "merge_push") /\ UNCHANGED <<nested, s_args, clone>>
    /\ UNCHANGED <<given, remote, pull_request, dispatched, task, t_args>>

\* gh_repo.commit(sha): the statuses and check suites of the commit, as the
\* hosting API reports them when it is asked
StatusCheck(self) == pc[self] = "status_check" /\ \E commit \in CIReports : StatusCheckOn(self, commit)

\* line 277: _git_call(["git", "push", "origin", f":{merge_bot_branch}"]),
\* outside any try
StatusFailDelete(self) ==
    /\ pc[self] = "status_fail_delete"
    /\ \E fault \in BOOLEAN :
        LET b == t_args[self].merge_bot_branch
            output == git_push_delete_output(bot[b], fault)
        IN  IF _git_call_delete_raises(output)
            THEN Emit(self, <<delete_failure(output)>>) /\ Exit(self, "raised") /\ UNCHANGED bot
            ELSE /\ bot' = [bot EXCEPT ![b] = Absent]
                 /\ Emit(self, <<"delete_bot">>)
                 /\ Exit(self, "done")
    /\ UNCHANGED <<given, target, pushed, pull_request, dispatched, frames, gh_commit, success>>

\* lines 96-103: the merge commit on the target branch of the clone, and its
\* push unless dry_run; a failed push is reported by merge_bot_status
MergePush(self) ==
    /\ pc[self] = "merge_push"
    /\ \E stamp \in Stamps :
        LET merged == git_merge_no_ff(clone[self].target, clone[self].branch, stamp)
            commit == IF merged = clone[self].target THEN <<>> ELSE <<"merge_commit">>
        IN  IF merge_pr_dry_run
            THEN /\ clone' = [clone EXCEPT ![self].target = merged]
                 /\ Emit(self, commit)
                 /\ Goto(self, "merge_delete")
                 /\ UNCHANGED target
            ELSE IF git_push_accepted(target, merged)
            THEN /\ clone' = [clone EXCEPT ![self].target = merged]
                 /\ target' = merged
                 /\ Emit(self, commit \o <<"push_target">>)
                 /\ Goto(self, "merge_delete")
            ELSE /\ Emit(self, commit \o <<"fail_push", "comment_not_finalized">>)
                 /\ Exit(self, "raised")
                 /\ UNCHANGED target
    /\ UNCHANGED <<given, bot, pushed, pull_request, dispatched, frames, gh_commit, success>>

\* a bug: the pull request is closed before the comment and the label
merge_report_close_first == <<"close", "comment_merged", "label">>

\* the success comment, the label unless dry_run, the closure
merge_report == <<"comment_merged">> \o (IF merge_pr_dry_run THEN <<>> ELSE <<"label">>) \o <<"close">>

\* lines 109-128: _git_delete_branch("origin", merge_bot_branch), then the
\* success comment, the label and the closure of the pull request
MergeDelete(self) ==
    /\ pc[self] = "merge_delete"
    /\ \E fault \in BOOLEAN :
        LET b == t_args[self].merge_bot_branch
            output == git_push_delete_output(bot[b], fault)
        IN  IF _git_delete_branch_raises(output)
            THEN /\ Emit(self, <<delete_failure(output), "comment_not_finalized">>)
                 /\ Exit(self, "raised")
                 /\ UNCHANGED <<bot, pull_request>>
            ELSE /\ bot' = [bot EXCEPT ![b] = Absent]
                 /\ Emit(self, (IF output = "" THEN <<"delete_bot">> ELSE <<>>) \o merge_report)
                 /\ pr_labels' = IF merge_pr_dry_run THEN pr_labels ELSE pr_labels \cup {LABEL_MERGED}
                 /\ pr_state' = "closed"
                 /\ Exit(self, "done")
    /\ UNCHANGED <<given, target, pushed, dispatched, frames, gh_commit, success>>

\* ------------------------------------------------------------------------
\* Specification
\* ------------------------------------------------------------------------

Next ==
    \/ TargetAdvance
    \/ \E self \in Procs :
        \/ DispatchStart(self)
        \/ DispatchStatus(self)
        \/ StartClone(self)
        \/ StartDelete(self)
        \/ StartPush(self)
        \/ StatusClone(self)
        \/ StatusCheck(self)
        \/ StatusFailDelete(self)
        \/ MergePush(self)
        \/ MergeDelete(self)

Spec == Init /\ [][Next]_vars

\* ------------------------------------------------------------------------
\* The aggregator on every bounded answer of the hosting API: one merge
\* command of alice, then one webhook on the pushed commit, whose statuses and
\* check suites are any lists of at most MaxEntries entries
\* ------------------------------------------------------------------------

AggInputs == [statuses : SeqsUpTo(StatusEntries, MaxEntries), check_suites : SeqsUpTo(SuiteEntries, MaxEntries)]

InitAgg == Init /\ cmd.username = "alice"

NextAgg ==
    \/ dispatched = 0 /\ DispatchStart(1)
    \/ StartClone(1)
    \/ StartDelete(1)
    \/ StartPush(1)
    \/ dispatched = 1 /\ DispatchStatus(1)
    \/ StatusClone(1)
    \/ pc[1] = "status_check" /\ \E commit \in AggInputs : StatusCheckOn(1, commit)

SpecAgg == InitAgg /\ [][NextAgg]_vars

\* ------------------------------------------------------------------------
\* The verdict on a commit, stated on its statuses and check suites
\* ------------------------------------------------------------------------

\* worker self has computed the verdict on gh_commit[self]
Judged(self) == success[self] # Unset

CountedStatus(c, i) == c.statuses[i].context \notin GITHUB_STATUS_IGNORED

CountedSuite(c, j) == c.check_suites[j].app \notin GITHUB_CHECK_SUITES_IGNORED

StatusFailed(c, i) == CountedStatus(c, i) /\ c.statuses[i].state \notin {"success", "pending"}

StatusPending(c, i) == CountedStatus(c, i) /\ c.statuses[i].state = "pending"

SuiteFailed(c, j) == CountedSuite(c, j) /\ c.check_suites[j].conclusion \notin {"", "success"}

SuiteIncomplete(c, j) == CountedSuite(c, j) /\ c.check_suites[j].conclusion = ""

\* a counted status of the legacy CI provider is a success
LegacySucceeded(c) == \E i \in 1 .. Len(c.statuses) : CountedStatus(c, i) /\ c.statuses[i].state = "success" /\ startswith(c.statuses[i].context, TravisPrefix)

\* an incomplete check suite that the legacy exception does not cover
SuitePending(c, j) == SuiteIncomplete(c, j) /\ ~(c.check_suites[j].app = "Travis CI" /\ LegacySucceeded(c))

HasFailed(c) == (\E i \in 1 .. Len(c.statuses) : StatusFailed(c, i)) \/ (\E j \in 1 .. Len(c.check_suites) : SuiteFailed(c, j))

HasPending(c) == (\E i \in 1 .. Len(c.statuses) : StatusPending(c, i)) \/ (\E j \in 1 .. Len(c.check_suites) : SuitePending(c, j))

\* a failed entry that no pending entry precedes, statuses first
FailedFirst(c) ==
    \/ \E i \in 1 .. Len(c.statuses) : StatusFailed(c, i) /\ \A k \in 1 .. i - 1 : ~StatusPending(c, k)
    \/ \E j \in 1 .. Len(c.check_suites) :
        /\ SuiteFailed(c, j)
        /\ \A i \in 1 .. Len(c.statuses) : ~StatusPending(c, i)
        /\ \A k \in 1 .. j - 1 : ~SuitePending(c, k)

\* a pending entry that no failed entry precedes, statuses first
PendingFirst(c) ==
    \/ \E i \in 1 .. Len(c.statuses) : StatusPending(c, i) /\ \A k \in 1 .. i - 1 : ~StatusFailed(c, k)
    \/ \E j \in 1 .. Len(c.check_suites) :
        /\ SuitePending(c, j)
        /\ \A i \in 1 .. Len(c.statuses) : ~StatusFailed(c, i)
        /\ \A k \in 1 .. j - 1 : ~SuiteFailed(c, k)

AllIgnored(c) == (\A i \in 1 .. Len(c.statuses) : ~CountedStatus(c, i)) /\ (\A j \in 1 .. Len(c.check_suites) : ~CountedSuite(c, j))

\* C6 as claimed: a failed counted entry makes the verdict False whatever the
\* other entries and their order are
C6_FailureWhateverTheRest == \A self \in Procs : Judged(self) /\ HasFailed(gh_commit[self]) => success[self] = False

\* C6 amended: a failed counted entry makes the verdict False when no pending
\* status and no incomplete check suite (outside the legacy exception) is
\* evaluated before it, statuses in their order and then check suites
C6_FailureUnlessPendingFirst == \A self \in Procs : Judged(self) /\ FailedFirst(gh_commit[self]) => success[self] = False

\* C6: a failed entry decided although a pending entry follows it
C6_Witness == \E self \in Procs : Judged(self) /\ FailedFirst(gh_commit[self]) /\ HasPending(gh_commit[self]) /\ success[self] = False

\* C7 as claimed: a pending counted status or an incomplete counted check
\* suite outside the legacy exception makes the verdict None
C7_PendingWhateverTheRest == \A self \in Procs : Judged(self) /\ HasPending(gh_commit[self]) => success[self] = None

\* C7 amended: a pending counted status or an incomplete counted check suite
\* outside the legacy exception makes the verdict None, even with successes
\* around it, when no failed entry is evaluated before it
C7_PendingUnlessFailedFirst == \A self \in Procs : Judged(self) /\ PendingFirst(gh_commit[self]) => success[self] = None

\* C7: a pending entry decided although a success precedes and a failure follows
C7_Witness ==
    \E self \in Procs :
        LET c == gh_commit[self] IN
        /\ Judged(self) /\ PendingFirst(c) /\ HasFailed(c) /\ success[self] = None
        /\ \E i \in 1 .. Len(c.statuses) : CountedStatus(c, i) /\ c.statuses[i].state = "success"

\* C8: when every status and every check suite of the commit is ignored, or
\* there is none, the verdict is None and merge_bot_status returns having done
\* nothing: no comment, no merge, no push, no deletion, the pull request untouched
C8_AllIgnoredIsUnknown ==
    \A self \in Procs :
        Judged(self) /\ AllIgnored(gh_commit[self]) =>
            /\ success[self] = None
            /\ pc[self] = "done"
            /\ log[self] = <<>>
            /\ bot[t_args[self].merge_bot_branch] = t_args[self].sha
            /\ Count(target, "merge") = 0 /\ Count(target, "pr") = 0
            /\ pr_state = "open" /\ pr_labels = {}

\* C8: a commit whose only entries are an ignored success status and an
\* ignored successful check suite was judged
C8_Witness ==
    \E self \in Procs :
        LET c == gh_commit[self] IN
        /\ Judged(self) /\ AllIgnored(c) /\ pc[self] = "done"
        /\ \E i \in 1 .. Len(c.statuses) : c.statuses[i].state = "success"
        /\ \E j \in 1 .. Len(c.check_suites) : c.check_suites[j].conclusion = "success"

\* no counted entry is failed or pending, but for incomplete check suites
OnlyIncompleteSuites(c) ==
    /\ \A i \in 1 .. Len(c.statuses) : ~StatusFailed(c, i) /\ ~StatusPending(c, i)
    /\ \A j \in 1 .. Len(c.check_suites) : ~SuiteFailed(c, j)
    /\ \E j \in 1 .. Len(c.check_suites) : SuiteIncomplete(c, j)

\* C9: with no other pending or failed entry, an incomplete Travis CI check
\* suite gives True when a counted travis-ci status is a success and None
\* when none is, and an incomplete check suite of another application gives
\* None with or without that status
C9_LegacyException ==
    \A self \in Procs :
        LET c == gh_commit[self] IN
        Judged(self) /\ OnlyIncompleteSuites(c) =>
            /\ (\A j \in 1 .. Len(c.check_suites) : SuiteIncomplete(c, j) => c.check_suites[j].app = "Travis CI") /\ LegacySucceeded(c) => success[self] = True
            /\ ~LegacySucceeded(c) => success[self] = None
            /\ (\E j \in 1 .. Len(c.check_suites) : SuiteIncomplete(c, j) /\ c.check_suites[j].app # "Travis CI") => success[self] = None

\* C9: the exception applied: travis-ci status success, Travis CI check suite
\* incomplete, verdict True
C9_Witness ==
    \E self \in Procs :
        LET c == gh_commit[self] IN
        /\ Judged(self) /\ OnlyIncompleteSuites(c) /\ LegacySucceeded(c) /\ success[self] = True
        /\ \A j \in 1 .. Len(c.check_suites) : SuiteIncomplete(c, j) => c.check_suites[j].app = "Travis CI"

\* ------------------------------------------------------------------------
\* The workflow
\* ------------------------------------------------------------------------

\* the running invocation of worker self did ev
Did(self, ev) == \E i \in 1 .. Len(log[self]) : log[self][i] = ev

Times(self, ev) == Cardinality({i \in 1 .. Len(log[self]) : log[self][i] = ev})

\* a step of the environment on the target branch
TargetMovedByOthers == \E i \in 1 .. MaxTargetMoves + 1 : target' = Append(target, ExtCommit(i))

\* C1: the remote target branch is pushed only by a merge_bot_status whose
\* sha is the head of the merge bot branch it cloned and whose verdict on it
\* is True; merge_bot_start, a stale merge_bot_status and one whose verdict is
\* None or False never push it
C1_TargetPushedOnlyOnSuccess ==
    [][target' # target /\ ~TargetMovedByOthers =>
        \E self \in Procs :
            /\ task[self] = "status" /\ ~nested[self]
            /\ pc[self] = "merge_push" /\ pc'[self] = "merge_delete"
            /\ clone[self].branch = t_args[self].sha
            /\ success[self] = True
            /\ _get_commit_success(gh_commit[self]) = True
            /\ target' = clone'[self].target]_vars

\* C1: a merge_bot_status has pushed the merge commit on the target branch
C1_Witness ==
    \E self \in Procs :
        /\ task[self] = "status" /\ pc[self] = "merge_delete"
        /\ Did(self, "push_target") /\ target = clone[self].target
        /\ Count(target, "merge") = 1

\* merge_bot_start runs again for worker self, called by _merge_bot_merge_pr
\* in a merge_bot_status that found the merge bot branch not on top
Restarted(self) == task[self] = "status" /\ nested[self]

\* what a restart must be whatever its end: no merge commit, nothing pushed on
\* the target branch, nothing reported as merged, one restart, for a branch
\* name that encodes the same pr, target branch, username and bumpversion
RestartKeepsIntent(self) ==
    /\ ~Did(self, "merge_commit") /\ ~Did(self, "push_target")
    /\ ~Did(self, "comment_merged") /\ ~Did(self, "label") /\ ~Did(self, "close")
    /\ Times(self, "restart") = 1
    /\ start_branch(s_args[self]) = t_args[self].merge_bot_branch
    /\ parse_merge_bot_branch(start_branch(s_args[self])) = parse_merge_bot_branch(t_args[self].merge_bot_branch)

\* C2, as claimed: a merge_bot_status that finds the target branch not an
\* ancestor of the merge bot branch makes no merge commit, pushes nothing on
\* the target branch, restarts merge_bot_start once for the same pr, target
\* branch, username and bumpversion, and never raises
C2_RestartNeverRaises ==
    \A self \in Procs : Restarted(self) => RestartKeepsIntent(self) /\ pc[self] # "raised"

\* C2, amended: a merge_bot_status that finds the target branch not an
\* ancestor of the merge bot branch makes no merge commit, pushes nothing on
\* the target branch, restarts merge_bot_start once for the same pr, target
\* branch, username and bumpversion, and raises only when a command of the
\* restarted merge_bot_start failed, which both except clauses report
C2_RestartRaisesOnlyWhenStartFails ==
    \A self \in Procs :
        Restarted(self) =>
            /\ RestartKeepsIntent(self)
            /\ pc[self] = "raised" =>
                /\ Did(self, "fail_rebase") \/ Did(self, "fail_delete") \/ Did(self, "fail_push")
                /\ Did(self, "comment_could_not_start") /\ Did(self, "comment_not_finalized")
            /\ pc[self] = "done" => Did(self, "push_bot") /\ Did(self, "comment_rebased")

\* C2: a restart ended well: the merge bot branch is pushed again, rebased on
\* the target branch that moved
C2_Witness ==
    \E self \in Procs :
        /\ Restarted(self) /\ pc[self] = "done"
        /\ Did(self, "restart") /\ Did(self, "push_bot")
        /\ s_args[self].bumpversion = "minor"
        /\ IsAncestor(target, bot[t_args[self].merge_bot_branch])
        /\ Count(target, "ext") > 0

\* a merge commit, once on the remote target branch, stays where it is
MergeCommitsKept ==
    \A i \in 1 .. Len(target) :
        target[i].k = "merge" => i <= Len(target') /\ target'[i] = target[i]

\* C3: whatever the interleaving of the merge_bot_status invocations for a
\* merge bot branch and sha, each with verdict True, the remote target branch
\* holds at most one merge commit for the pull request, and a merge commit
\* that was pushed is never replaced by another one
C3_AtMostOneMerge == [](Count(target, "merge") <= 1) /\ [][MergeCommitsKept]_vars

\* C3: two merge_bot_status for the same branch and sha both saw True and both
\* made their merge commit; one pushed it, the push of the other was rejected
C3_Witness ==
    \E p, q \in Procs :
        /\ p # q /\ task[p] = "status" /\ task[q] = "status"
        /\ t_args[p] = t_args[q] /\ ~nested[p] /\ ~nested[q]
        /\ success[p] = True /\ success[q] = True
        /\ Did(p, "merge_commit") /\ Did(p, "push_target")
        /\ Did(q, "merge_commit") /\ Did(q, "fail_push") /\ pc[q] = "raised"
        /\ Count(target, "merge") = 1

\* the step of merge_bot_status of worker self that finds the head of the merge
\* bot branch different from its sha
StaleStep(self) ==
    /\ task[self] = "status" /\ pc[self] = "status_clone" /\ pc'[self] # "status_clone"
    /\ bot[t_args[self].merge_bot_branch] # Absent
    /\ bot[t_args[self].merge_bot_branch] # t_args[self].sha

\* C4: a merge_bot_status whose sha is not the head of the merge bot branch
\* returns without raising and does nothing: no comment, label or closure, no
\* push or deletion on the remote, no restart of merge_bot_start
C4_StaleStatusDoesNothing ==
    [][\A self \in Procs :
        StaleStep(self) =>
            /\ pc'[self] = "done" /\ log'[self] = <<>>
            /\ success'[self] = Unset /\ ~nested'[self]
            /\ UNCHANGED <<target, bot, pushed, pr_state, pr_labels>>]_vars

\* C4: a merge_bot_status returned on the staleness guard
C4_Witness ==
    \E self \in Procs :
        /\ task[self] = "status" /\ pc[self] = "done"
        /\ success[self] = Unset /\ log[self] = <<>>
        /\ bot[t_args[self].merge_bot_branch] \notin {Absent, t_args[self].sha}

\* C5: no deletion of the merge bot branch, in merge_bot_start, in
\* _merge_bot_merge_pr or in merge_bot_status after a failed verdict, makes
\* the invocation raise because the branch is already absent on the remote
C5_DeleteToleratesAbsent ==
    \A self \in Procs : ~(pc[self] = "raised" /\ Did(self, "fail_unable_to_delete"))

\* C10: merge_bot_start for a username that cannot push posts one comment
\* for that user and returns: no clone, no fetch, no rebase, no push and no
\* deletion on the remote, and it does not raise
C10_NoPermissionOnlyComments ==
    \A self \in Procs :
        task[self] = "start" /\ s_args[self].username \notin Pushers =>
            /\ pc[self] \in {"start_clone", "done"}
            /\ clone[self] = NoClone
            /\ log[self] = IF pc[self] = "done" THEN <<"comment_no_permission">> ELSE <<>>
            /\ \A b \in BotBranches : bot[b] = Absent
            /\ pushed = {}
            /\ Count(target, "pr") = 0 /\ Count(target, "merge") = 0

\* C10: merge_bot_start returned after the comment to a user who cannot push
C10_Witness ==
    \E self \in Procs :
        /\ task[self] = "start" /\ pc[self] = "done"
        /\ s_args[self].username = "bob" /\ ~git_user_can_push("bob")
        /\ log[self] = <<"comment_no_permission">>

\* every ev of the running invocation of worker self comes after an earlier
Before(self, earlier, ev) ==
    \A i \in 1 .. Len(log[self]) :
        log[self][i] = ev => \E k \in 1 .. i - 1 : log[self][k] = earlier

\* the effects of _merge_bot_merge_pr, and the restart of merge_bot_start
MergeEffects == {"merge_commit", "push_target", "comment_merged", "label", "close", "restart"}

\* C11: a merge_bot_status on the head of the merge bot branch with a failed
\* check posts the one comment that the merge was aborted and then deletes the
\* merge bot branch (when the delete command fails it raises after the
\* comment), and makes no merge commit, pushes no target branch, adds no label,
\* closes nothing and restarts nothing
C11_FailureCommentsThenDeletes ==
    \A self \in Procs :
        Judged(self) /\ FailedFirst(gh_commit[self]) =>
            /\ \A ev \in MergeEffects : ~Did(self, ev)
            /\ ~nested[self]
            /\ Times(self, "comment_aborted") = 1 /\ log[self][1] = "comment_aborted"
            /\ pc[self] \in {"status_fail_delete", "done", "raised"}
            /\ pc[self] = "status_fail_delete" => log[self] = <<"comment_aborted">>
            /\ pc[self] = "done" => log[self] = <<"comment_aborted", "delete_bot">>
            /\ pc[self] = "raised" => log[self] \in {<<"comment_aborted", "fail_delete">>, <<"comment_aborted", "fail_unable_to_delete">>}

\* C11: the merge bot branch is gone after the comment on the failed check
C11_Witness ==
    \E self \in Procs :
        /\ Judged(self) /\ FailedFirst(gh_commit[self]) /\ pc[self] = "done"
        /\ log[self] = <<"comment_aborted", "delete_bot">>
        /\ bot[t_args[self].merge_bot_branch] = Absent
        /\ pr_state = "open" /\ Count(target, "merge") = 0

\* no counted entry of the commit is failed or pending, and one is a success
Succeeded(c) ==
    /\ ~HasFailed(c) /\ ~HasPending(c)
    /\ \/ \E i \in 1 .. Len(c.statuses) : CountedStatus(c, i) /\ c.statuses[i].state = "success"
       \/ \E j \in 1 .. Len(c.check_suites) : CountedSuite(c, j) /\ c.check_suites[j].conclusion = "success"

\* worker self runs, or has run, _merge_bot_merge_pr past the check that the
\* merge bot branch is on top of the target branch
Finalizing(self) == task[self] = "status" /\ Judged(self) /\ Succeeded(gh_commit[self]) /\ ~nested[self]

\* C12, as claimed: a merge_bot_status with a successful verdict and no race
\* that returns has done, once each and in this order: merge commit, push of
\* the target branch, deletion of the merge bot branch, success comment,
\* label, closure
C12_SixStepsOnceInOrder ==
    \A self \in Procs :
        Finalizing(self) /\ pc[self] = "done" =>
            log[self] = <<"merge_commit", "push_target", "delete_bot", "comment_merged", "label", "close">>

\* C12, amended: a merge_bot_status with a successful verdict and no race
\* that returns has pushed the target branch, then posted the success
\* comment, added the label and closed the pull request, once each and in
\* this order; the merge commit comes first and once, unless the merge bot
\* branch already holds the merge (git merge is then up to date); the deletion
\* of the merge bot branch comes once between push and comment, unless the
\* branch is already absent; nothing is deleted, commented or closed before
\* the push of the target branch
C12_StepsInOrderAfterPush ==
    \A self \in Procs :
        Finalizing(self) =>
            /\ pc[self] \in {"merge_push", "merge_delete", "done", "raised"}
            /\ pc[self] = "merge_push" => log[self] = <<>>
            /\ pc[self] = "merge_delete" => log[self] \in {<<"push_target">>, <<"merge_commit", "push_target">>}
            /\ pc[self] = "done" =>
                /\ log[self] \in {
                    <<"merge_commit", "push_target", "delete_bot", "comment_merged", "label", "close">>,
                    <<"merge_commit", "push_target", "comment_merged", "label", "close">>,
                    <<"push_target", "delete_bot", "comment_merged", "label", "close">>,
                    <<"push_target", "comment_merged", "label", "close">> }
                /\ ~Did(self, "merge_commit") => Count(t_args[self].sha, "merge") = 1
                /\ pr_state = "closed" /\ LABEL_MERGED \in pr_labels
                /\ IsAncestor(t_args[self].sha, target)
            /\ \A ev \in {"delete_bot", "comment_merged", "label", "close"} : Before(self, "push_target", ev)
            /\ ~Did(self, "push_target") => pc[self] = "raised" \/ pc[self] = "merge_push"

\* C12: the six steps, once each and in order
C12_Witness ==
    \E self \in Procs :
        /\ Finalizing(self) /\ pc[self] = "done"
        /\ log[self] = <<"merge_commit", "push_target", "delete_bot", "comment_merged", "label", "close">>
        /\ bot[t_args[self].merge_bot_branch] = Absent /\ pr_state = "closed"
        /\ Count(target, "merge") = 1

\* the comments that report a failure of the invocation on the pull request
FailureComments == {"comment_could_not_start", "comment_not_finalized"}

\* C13: an invocation of merge_bot_start or merge_bot_status that raises on a
\* failed git command of its own has first posted a comment that reports the
\* failure on the pull request
C13_RaisedAfterComment ==
    \A self \in Procs :
        pc[self] = "raised" /\ ~Did(self, "fail_clone") =>
            \E i \in 1 .. Len(log[self]) :
                /\ log[self][i] \in FailureComments
                /\ \E k \in 1 .. i - 1 : log[self][k] \in {"fail_rebase", "fail_delete", "fail_unable_to_delete", "fail_push"}

\* ------------------------------------------------------------------------
\* Redelivery: one worker runs the tasks one after the other, and the queue
\* delivers one completed task a second time with the same arguments; other
\* people push on the target branch only during a first merge_bot_status
\* ------------------------------------------------------------------------

\* the queue delivers the task that worker self completed without error a
\* second time
Redeliver(self) ==
    /\ left_by_first = NotRedelivered
    /\ pc[self] = "done"
    /\ dispatched < MaxDispatch
    /\ dispatched' = dispatched + 1
    /\ nested' = [nested EXCEPT ![self] = FALSE]
    /\ s_args' = [s_args EXCEPT ![self] = IF task[self] = "start" THEN @ ELSE NoStart]
    /\ left_by_first' = [target |-> target, bot |-> bot, pr_state |-> pr_state]
    /\ clone' = [clone EXCEPT ![self] = NoClone]
    /\ success' = [success EXCEPT ![self] = Unset]
    /\ log' = [log EXCEPT ![self] = <<>>]
    /\ Goto(self, IF task[self] = "start" THEN "start_clone" ELSE "status_clone")
    /\ UNCHANGED <<cmd, remote, pull_request, task, t_args, gh_commit>>

\* the second delivery reads the statuses and check suites the first one read
StatusCheckAgain(self) ==
    /\ pc[self] = "status_check"
    /\ \E commit \in CIReports :
        /\ left_by_first # NotRedelivered => gh_commit[self] \in {NoEntries, commit}
        /\ StatusCheckOn(self, commit)

NextIdem ==
    \/ left_by_first = NotRedelivered /\ task[1] = "status" /\ TargetAdvance
    \/ left_by_first = NotRedelivered /\ dispatched = 0 /\ DispatchStart(1)
    \/ left_by_first = NotRedelivered /\ dispatched > 0 /\ DispatchStatus(1)
    \/ Redeliver(1)
    \/ StartClone(1)
    \/ StartDelete(1)
    \/ StartPush(1)
    \/ StatusClone(1)
    \/ StatusCheckAgain(1)
    \/ StatusFailDelete(1)
    \/ MergePush(1)
    \/ MergeDelete(1)

SpecIdem == InitAgg /\ [][NextIdem]_vars

\* C14: a merge_bot_start or merge_bot_status delivered a second time with
\* the same arguments, after the first delivery completed, completes without
\* error (unless the remote fails) and leaves the merge bot branch, the
\* target branch and the state of the pull request as the first left them
C14_RedeliveryChangesNothing ==
    left_by_first # NotRedelivered =>
        /\ pc[1] = "raised" => Did(1, "fail_delete")
        /\ pc[1] = "done" => [target |-> target, bot |-> bot, pr_state |-> pr_state] = left_by_first

\* the step of worker self in which merge_bot_start returns after its push
StartReturns(self) == pc[self] = "start_push" /\ pc'[self] = "done"

\* C15: when the user can push and no command fails, merge_bot_start returns
\* with the merge bot branch on the remote under the name made of pr, target
\* branch, username and bumpversion, its head being the head of the pull
\* request rebased on the tip of the target branch it cloned, whatever branch
\* of that name was there before; it posts the comment "Rebased to ..." once,
\* and only after the push of the merge bot branch
C15_StartPushesRebasedBranch ==
    /\ [](\A self \in Procs :
            /\ Times(self, "comment_rebased") <= 1 /\ Times(self, "push_bot") <= 1
            /\ Before(self, "push_bot", "comment_rebased")
            /\ task[self] = "start" /\ pc[self] = "done" /\ s_args[self].username \in Pushers =>
                log[self] \in {<<"delete_bot", "push_bot", "comment_rebased">>, <<"push_bot", "comment_rebased">>})
    /\ [][\A self \in Procs :
            StartReturns(self) =>
                LET a == s_args[self]
                    b == <<"ocabot-merge", a.pr, TargetBranch, a.username, a.bumpversion>>
                IN  /\ a.username \in Pushers
                    /\ bot'[b] # Absent
                    /\ IsAncestor(clone[self].target, bot'[b])
                    /\ Count(bot'[b], "pr") = 1
                    /\ Len(bot'[b]) <= Len(clone[self].target) + 1
                    /\ <<b, bot'[b]>> \in pushed'
                    /\ \A other \in BotBranches \ {b} : bot'[other] = bot[other]
                    /\ target' = target
                    /\ Len(log'[self]) >= 2
                    /\ log'[self][Len(log'[self])] = "comment_rebased"
                    /\ log'[self][Len(log'[self]) - 1] = "push_bot"]_vars

\* C15: merge_bot_start replaced the merge bot branch by the pull request
\* rebased on a target branch that had moved
C15_Witness ==
    \E self \in Procs :
        /\ task[self] = "start" /\ pc[self] = "done"
        /\ log[self] = <<"delete_bot", "push_bot", "comment_rebased">>
        /\ bot[start_branch(s_args[self])] = Append(target, PRCommit)
        /\ Count(target, "ext") = 1

\* C16: when other people push on the target branch after the merge bot
\* branch was rebased, even between the check that the branch is on top and
\* the push of the target branch, merge_bot_status ends in a restart of
\* merge_bot_start and never in a failed push of the target branch, and the
\* commits of the other people stay on the target branch
C16_TargetMoveRestarts ==
    /\ \A self \in Procs :
        ~(/\ task[self] = "status" /\ ~nested[self] /\ pc[self] = "raised"
          /\ Did(self, "fail_push")
          /\ Count(target, "merge") = 0 /\ Count(target, "ext") > 0)
    /\ \A i \in 1 .. MaxTargetMoves : Count(target, "ext") >= i => \E k \in 1 .. Len(target) : target[k] = ExtCommit(i)

\* the bot told the pull request it is merged: the success comment, the
\* label or the closure
ReportedMerged ==
    \/ pr_state = "closed" \/ LABEL_MERGED \in pr_labels
    \/ \E self \in Procs : Did(self, "comment_merged") \/ Did(self, "label") \/ Did(self, "close")

\* C17: whenever the bot has posted the success comment, added the merged
\* label or closed the pull request, the remote target branch holds a merge
\* commit and the commit of the pull request
C17_ReportedMergedIsMerged ==
    ReportedMerged =>
        \E i, j \in 1 .. Len(target) : i < j /\ target[i] = PRCommit /\ target[j].k = "merge"

\* C17: the pull request is closed and labelled, and its merge is on the
\* target branch
C17_Witness ==
    /\ pr_state = "closed" /\ LABEL_MERGED \in pr_labels
    /\ \E self \in Procs : Did(self, "comment_merged") /\ Did(self, "close")
    /\ \E j \in 1 .. Len(target) : target[j].k = "merge"

C19_DryRunNeverPushes ==
    cmd.dry_run =>
        /\ Count(target, "merge") = 0 /\ Count(target, "pr") = 0
        /\ LABEL_MERGED \notin pr_labels
        /\ \A self \in Procs : ~Did(self, "push_target") /\ ~Did(self, "label")

\* ------------------------------------------------------------------------
\* Progress: the user keeps the permission, the rebase has no conflict, the
\* remote does not fail, the checks of every pushed head end in a verdict and
\* one webhook is delivered for it; pushed holds the pushes whose webhook is
\* still to come
\* ------------------------------------------------------------------------

\* the webhook of a pushed head, once its checks ended, starts merge_bot_status
DeliverStatus(self) ==
    /\ takes_task(self)
    /\ \E ev \in pushed :
        /\ t_args' = [t_args EXCEPT ![self] = [merge_bot_branch |-> ev[1], sha |-> ev[2]]]
        /\ pushed' = pushed \ {ev}
    /\ task' = [task EXCEPT ![self] = "status"]
    /\ s_args' = [s_args EXCEPT ![self] = NoStart]
    /\ nested' = [nested EXCEPT ![self] = FALSE]
    /\ clone' = [clone EXCEPT ![self] = NoClone]
    /\ gh_commit' = [gh_commit EXCEPT ![self] = NoEntries]
    /\ success' = [success EXCEPT ![self] = Unset]
    /\ log' = [log EXCEPT ![self] = <<>>]
    /\ Goto(self, "status_clone")
    /\ UNCHANGED <<given, target, bot, pull_request, dispatched>>

\* the checks have ended: the verdict is True or False
StatusCheckEnded(self) ==
    /\ pc[self] = "status_check"
    /\ \E commit \in CIReports : _get_commit_success(commit) # None /\ StatusCheckOn(self, commit)

\* the step of worker self did not end on a rebase conflict or a failure of
\* the remote
NoFault(self) ==
    ~(pc'[self] = "raised" /\ \E i \in DOMAIN log'[self] : log'[self][i] \in {"fail_delete", "fail_rebase"})

\* the steps of the bot
BotStep(self) ==
    \/ DeliverStatus(self)
    \/ StartClone(self) /\ NoFault(self)
    \/ StartDelete(self) /\ NoFault(self)
    \/ StartPush(self)
    \/ StatusClone(self)
    \/ StatusCheckEnded(self)
    \/ StatusFailDelete(self) /\ NoFault(self)
    \/ MergePush(self)
    \/ MergeDelete(self) /\ NoFault(self)

NextLive ==
    \/ TargetAdvance
    \/ \E self \in Procs : DispatchStart(self)
    \/ \E self \in Procs : BotStep(self)

\* every task that can take a step takes it, and every webhook is delivered
SpecLive == InitAgg /\ [][NextLive]_vars /\ WF_vars(\E self \in Procs : BotStep(self))

\* C20: under these assumptions a merge bot branch pushed by merge_bot_start
\* is eventually gone from the remote, the pull request being merged and
\* closed or a comment about the failure posted: the workflow is never left
\* with a merge bot branch on the remote for which no webhook is to come
C20_BotBranchEventuallyGone ==
    (\E b \in BotBranches : bot[b] # Absent) ~> (\A b \in BotBranches : bot[b] = Absent)

====
